---- MODULE Spec2Model ----
(***************************************************************************)
(* Model of the eva01 transaction dispatch code:                           *)
(*   - JitoClient (src/src/jito/mod.rs): the leader-aware bundle sender,   *)
(*     one step per await point of send_transaction, plus get_tip_accounts *)
(*   - LiquidatorAccount (src/src/wrappers/liquidator_account.rs) and the  *)
(*     instruction builders (src/src/marginfi_ixs.rs)                      *)
(*   - run_liquidator (src/src/cli/entrypoints.rs): the transaction        *)
(*     channel between the liquidator, the rebalancer and the transaction  *)
(*     manager                                                             *)
(*   - the direct retry sender (aggressive_send_tx), after its contract    *)
(***************************************************************************)
EXTENDS Integers, Sequences, FiniteSets, TLC

(***************************************************************************)
(* Bounds of the model                                                     *)
(***************************************************************************)
\* slots are unsigned integers of SlotBits bits (u64 in the program)
SlotBits == 3
\* polls and sleeps are counted up to MaxPolls (the counters saturate)
MaxPolls == 3
\* the request log of a dispatch keeps its first MaxLog entries
MaxLog == 8
\* the relay answers get_tip_accounts with at most MaxTips accounts
MaxTips == 1
\* tips are 1..MaxLamports lamports
MaxLamports == 1
\* a marginfi account has balances in at most MaxExposure banks
MaxExposure == 2
\* amounts are 1..MaxAmount
MaxAmount == 1
\* each producer sends at most MaxSend items on the transaction channel
MaxSend == 2
\* the direct sender's attempt ceiling is one of 1..MaxCeiling
MaxCeiling == 4

(***************************************************************************)
(* Program constants                                                       *)
(***************************************************************************)
\* jito/mod.rs:71  is_jito_leader = (num_slots <= 2)
LeaderSlotThreshold == 2
\* liquidator_account.rs:105  set_compute_unit_limit(400_000)
ComputeUnitLimit == 400000


RECURSIVE Pow2(_)
Pow2(n) == IF n = 0 THEN 1 ELSE 2 * Pow2(n - 1)

\* the values of an unsigned slot number
SlotModulus == Pow2(SlotBits)
Slots == 0 .. (SlotModulus - 1)

Min(a, b) == IF a < b THEN a ELSE b

(***************************************************************************)
(* Addresses and instructions                                              *)
(***************************************************************************)
\* the signer keypair's public key
SignerPk == "signer"
SystemProgram == "system_program"
ComputeBudgetProgram == "compute_budget_program"
\* marginfi::id() and spl_token::id()
MarginfiProgram == "marginfi_program"
TokenProgram == "spl_token_program"

\* an account of an instruction: a fixed account as to_account_metas gives it,
\* or AccountMeta::new_readonly(key, false)
FixedMeta(pk) == [pubkey |-> pk, meta |-> "fixed"]
ReadonlyMeta(pk) == [pubkey |-> pk, meta |-> "readonly_nonsigner"]

\* system_instruction::transfer(from, to, lamports)
Transfer(from, to, amt) ==
    [program_id |-> SystemProgram,
     accounts |-> << FixedMeta(from), FixedMeta(to) >>,
     data |-> [tag |-> "Transfer", amount |-> amt, all |-> "None"]]

\* ComputeBudgetInstruction::set_compute_unit_limit(units)
SetComputeUnitLimit(units) ==
    [program_id |-> ComputeBudgetProgram,
     accounts |-> << >>,
     data |-> [tag |-> "SetComputeUnitLimit", amount |-> units, all |-> "None"]]

\* ComputeBudgetInstruction::set_compute_unit_price(price)
SetComputeUnitPrice(price) ==
    [program_id |-> ComputeBudgetProgram,
     accounts |-> << >>,
     data |-> [tag |-> "SetComputeUnitPrice", amount |-> price, all |-> "None"]]

IsComputeBudgetIx(ix) == ix.program_id = ComputeBudgetProgram

\* accounts.extend(observation_accounts.iter().map(|a| AccountMeta::new_readonly(a.key(), false)))
ReadonlyMetas(pks) == [i \in 1 .. Len(pks) |-> ReadonlyMeta(pks[i])]

\* the addresses of an account list, in order
Pubkeys(metas) == [i \in 1 .. Len(metas) |-> metas[i].pubkey]

Range(s) == {s[i] : i \in 1 .. Len(s)}

(***************************************************************************)
(* Instruction builders (marginfi_ixs.rs)                                  *)
(***************************************************************************)
\* marginfi::accounts::LendingAccountDeposit { .. }.to_account_metas(Some(true))
DepositMetas(marginfi_group, marginfi_account, signer, bank, signer_token_account, bank_liquidity_vault, token_program) ==
    << FixedMeta(marginfi_group), FixedMeta(marginfi_account), FixedMeta(signer),
       FixedMeta(bank), FixedMeta(signer_token_account),
       FixedMeta(bank_liquidity_vault), FixedMeta(token_program) >>

make_deposit_ix(marginfi_program_id, marginfi_group, marginfi_account, signer, bank, signer_token_account, bank_liquidity_vault, token_program, amount) ==
    [program_id |-> marginfi_program_id,
     accounts |-> DepositMetas(marginfi_group, marginfi_account, signer, bank,
                               signer_token_account, bank_liquidity_vault,
                               token_program),
     data |-> [tag |-> "LendingAccountDeposit", amount |-> amount, all |-> "None"]]

\* LendingAccountRepay has the account fields of LendingAccountDeposit
make_repay_ix(marginfi_program_id, marginfi_group, marginfi_account, signer, bank, signer_token_account, bank_liquidity_vault, token_program, amount, repay_all) ==
    [program_id |-> marginfi_program_id,
     accounts |-> DepositMetas(marginfi_group, marginfi_account, signer, bank,
                               signer_token_account, bank_liquidity_vault,
                               token_program),
     data |-> [tag |-> "LendingAccountRepay", amount |-> amount, all |-> repay_all]]

\* marginfi::accounts::LendingAccountWithdraw { .. }.to_account_metas(Some(true))
WithdrawMetas(marginfi_group, marginfi_account, signer, bank, destination_token_account, bank_liquidity_vault_authority, bank_liquidity_vault, token_program) ==
    << FixedMeta(marginfi_group), FixedMeta(marginfi_account), FixedMeta(signer),
       FixedMeta(bank), FixedMeta(destination_token_account),
       FixedMeta(bank_liquidity_vault_authority), FixedMeta(bank_liquidity_vault),
       FixedMeta(token_program) >>

\* the local `accounts` (fixed accounts extended with the observation accounts)
\* is built and dropped: the returned Instruction takes a second, unextended
\* to_account_metas of the same struct
make_withdraw_ix(marginfi_program_id, marginfi_group, marginfi_account, signer, bank, destination_token_account, bank_liquidity_vault_authority, bank_liquidity_vault, token_program, observation_accounts, amount, withdraw_all) ==
    LET fixed == WithdrawMetas(marginfi_group, marginfi_account, signer, bank,
                               destination_token_account,
                               bank_liquidity_vault_authority, bank_liquidity_vault,
                               token_program)
        accounts == fixed \o ReadonlyMetas(observation_accounts)
    IN  [program_id |-> marginfi_program_id,
         accounts |-> fixed,
         data |-> [tag |-> "LendingAccountWithdraw", amount |-> amount,
                   all |-> withdraw_all]]

\* marginfi::accounts::LendingAccountLiquidate { .. }.to_account_metas(Some(true))
LiquidateMetas(marginfi_group, marginfi_account, asset_bank, liab_bank, signer, liquidatee_marginfi_account, bank_liquidity_vault_authority, bank_liquidity_vault, bank_insurance_vault, token_program) ==
    << FixedMeta(marginfi_group), FixedMeta(marginfi_account), FixedMeta(signer),
       FixedMeta(liquidatee_marginfi_account),
       FixedMeta(bank_liquidity_vault_authority), FixedMeta(bank_liquidity_vault),
       FixedMeta(bank_insurance_vault), FixedMeta(token_program),
       FixedMeta(asset_bank), FixedMeta(liab_bank) >>

\* the two extends in the other order
LiquidateAccountsSwapped(fixed, liquidatee_observation_accounts, liquidator_observation_accounts) ==
    (fixed \o ReadonlyMetas(liquidator_observation_accounts))
        \o ReadonlyMetas(liquidatee_observation_accounts)

\* the two extends of make_liquidate_ix: first the parameter named
\* liquidatee_observation_accounts, then liquidator_observation_accounts
LiquidateAccounts(fixed, liquidatee_observation_accounts, liquidator_observation_accounts) ==
    (fixed \o ReadonlyMetas(liquidatee_observation_accounts))
        \o ReadonlyMetas(liquidator_observation_accounts)

make_liquidate_ix(marginfi_program_id, marginfi_group, marginfi_account, asset_bank, liab_bank, signer, liquidatee_marginfi_account, bank_liquidity_vault_authority, bank_liquidity_vault, bank_insurance_vault, token_program, liquidatee_observation_accounts, liquidator_observation_accounts, asset_amount) ==
    [program_id |-> marginfi_program_id,
     accounts |-> LiquidateAccounts(
                      LiquidateMetas(marginfi_group, marginfi_account, asset_bank,
                                     liab_bank, signer, liquidatee_marginfi_account,
                                     bank_liquidity_vault_authority,
                                     bank_liquidity_vault, bank_insurance_vault,
                                     token_program),
                      liquidatee_observation_accounts,
                      liquidator_observation_accounts),
     data |-> [tag |-> "LendingAccountLiquidate", amount |-> asset_amount,
               all |-> "None"]]

(***************************************************************************)
(* Banks and marginfi accounts                                             *)
(***************************************************************************)
Banks == {"bank1", "bank2", "bank3"}

\* bank.bank.liquidity_vault, bank.bank.insurance_vault, oracle_keys[0]
LiquidityVault(bank) == bank \o ".liquidity_vault"
InsuranceVault(bank) == bank \o ".insurance_vault"

\* crate::utils::find_bank_vault_authority_pda(bank, BankVaultType::Liquidity, program).0
find_bank_vault_authority_pda(bank, program_id) ==
    (bank \o ".liquidity_vault_authority.") \o program_id

\* the banks an account has balances in, in the account's order, none twice
Exposures ==
    {b \in UNION {[1 .. n -> Banks] : n \in 0 .. MaxExposure} :
        \A i, j \in 1 .. Len(b) : i # j => b[i] # b[j]}

RECURSIVE AppendAbsent(_, _)
AppendAbsent(s, more) ==
    IF more = << >> THEN s
    ELSE AppendAbsent(IF Head(more) \in Range(s) THEN s ELSE Append(s, Head(more)),
                      Tail(more))

\* MarginfiAccountWrapper::get_observation_accounts(include, exclude, banks):
\* the account's exposures without the excluded banks, in the account's order,
\* followed by the banks of the first argument that are not among them yet
get_observation_accounts(balances, banks_to_include, banks_to_exclude) ==
    AppendAbsent(SelectSeq(balances, LAMBDA b : b \notin Range(banks_to_exclude)),
                 banks_to_include)

\* TxConfig::compute_unit_price_micro_lamports : Option<u64>
ComputeUnitPrices == {[some |-> FALSE, value |-> 0], [some |-> TRUE, value |-> 1]}

\* Option<bool>
OptionBool == {"None", "SomeFalse", "SomeTrue"}
\* Option<bool>::unwrap_or(false)
UnwrapOrFalse(o) == o = "SomeTrue"

Amounts == 1 .. MaxAmount

\* what aggressive_send_tx reports for a transaction
SendOutcomes == {"Landed", "Expired", "Error"}

(***************************************************************************)
(* State                                                                   *)
(***************************************************************************)
VARIABLES
    \* LiquidatorAccount
    balances,         \* account_wrapper: the banks the liquidator account is exposed to
    call,             \* the last call of liquidate / withdraw / repay / deposit
    \* JitoClient
    tip_accounts,     \* JitoClient::tip_accounts
    overflow_checks,  \* whether the build checks integer overflow
    pc,               \* where send_transaction stands
    ixs,              \* send_transaction's ixs
    lamports,         \* send_transaction's lamports
    slot_distance,    \* next_leader_slot - current_slot of the last answer, as an integer
    num_slots,        \* the last num_slots
    is_jito_leader,
    polls,            \* leader polls of this dispatch (saturates at MaxPolls)
    sleeps,           \* sleeps of this dispatch (saturates at MaxPolls)
    log,              \* the requests and sleeps of this dispatch, in order
    bundle,           \* the transactions submitted to the relay by this dispatch
    bundle_result,    \* what send_bundle_with_confirmation came back with
    error_logged,     \* error!("Failed to send bundle") was logged
    ret,              \* what the last send_transaction returned
    \* run_liquidator
    transaction_channel, \* the items in the transaction channel, oldest first
    senders,          \* who holds a live Sender of the transaction channel
    sent,             \* how many items each producer has sent
    received,         \* the items the transaction manager has received, in order
    run_liquidator,   \* "running" or "returned"
    transaction_manager, \* "running" or "stopped"
    \* the direct retry sender
    attempt_ceiling,  \* the configured ceiling of the send under way
    attempts,         \* attempts made by the send under way
    responses,        \* what the ledger answered to each attempt's poll
    submission_outcome \* "idle", "pending", "Landed", "Expired"

acctVars == << balances, call >>
jitoVars == << tip_accounts, overflow_checks, pc, ixs, lamports, slot_distance, num_slots,
               is_jito_leader, polls, sleeps, log, bundle, bundle_result,
               error_logged, ret >>
chanVars == << transaction_channel, senders, sent, received, run_liquidator,
               transaction_manager >>
retryVars == << attempt_ceiling, attempts, responses, submission_outcome >>
vars == << balances, call, tip_accounts, overflow_checks, pc, ixs, lamports,
           slot_distance, num_slots, is_jito_leader, polls, sleeps, log, bundle,
           bundle_result, error_logged, ret, transaction_channel, senders, sent,
           received, run_liquidator, transaction_manager, attempt_ceiling, attempts,
           responses, submission_outcome >>

(***************************************************************************)
(* LiquidatorAccount (wrappers/liquidator_account.rs)                      *)
(***************************************************************************)
Group == "group"
LiquidatorAddress == "liquidator_account"
LiquidateeAddress == "liquidatee_account"
TokenAccount == "signer_token_account"
\* Pubkey::default(), the all-zero address
DefaultPubkey == "11111111111111111111111111111111"
\* the token accounts a caller may pass
TokenAccounts == {TokenAccount, DefaultPubkey}

NoCall ==
    [op |-> "none", bank |-> "none", liab_bank |-> "none", all |-> "None",
     token_account |-> "none", sender |-> "none",
     observation_accounts |-> << >>,
     liquidator_observation_accounts |-> << >>,
     liquidatee_observation_accounts |-> << >>,
     protocol_ix |-> Transfer("none", "none", 0), ixs |-> << >>,
     sent |-> FALSE, send_outcome |-> "none", info |-> "none", ret |-> "none"]

\* the compute-budget limit put in front of the liquidate instruction
LiquidateIxsLimitFirst(liquidate_ix, price) ==
    LET head == << SetComputeUnitLimit(ComputeUnitLimit), liquidate_ix >>
    IN  IF price.some THEN Append(head, SetComputeUnitPrice(price.value)) ELSE head

\* liquidate: vec![liquidate_ix, compute_budget_limit_ix], then the optional price
LiquidateIxs(liquidate_ix, price) ==
    LET head == << liquidate_ix, SetComputeUnitLimit(ComputeUnitLimit) >>
    IN  IF price.some THEN Append(head, SetComputeUnitPrice(price.value)) ELSE head

\* withdraw, repay, deposit: vec![ix], then the optional price
PlainIxs(ix, price) ==
    IF price.some THEN << ix, SetComputeUnitPrice(price.value) >> ELSE << ix >>

\* the test of withdraw_all turned around
BanksToExcludeTurned(bank, withdraw_all) ==
    IF UnwrapOrFalse(withdraw_all) THEN << >> ELSE << bank >>

\* withdraw: banks_to_exclude
BanksToExclude(bank, withdraw_all) ==
    IF UnwrapOrFalse(withdraw_all) THEN << bank >> ELSE << >>

\* liquidate: the liquidator's observation accounts
LiquidatorObservationAccounts(liab_bank, asset_bank) ==
    get_observation_accounts(balances, << liab_bank, asset_bank >>, << >>)

\* liquidate: the call of make_liquidate_ix. The arguments are bound by position:
\* the liquidator's observation accounts are the 12th argument and the liquidatee's
\* the 13th. (The call also passes the two banks' oracle keys, which the signature
\* does not take: they are part of no account list.)
LiquidateIx(asset_bank, liab_bank, liquidator_obs, liquidatee_obs, asset_amount) ==
    make_liquidate_ix(MarginfiProgram, Group, LiquidatorAddress, asset_bank, liab_bank,
                      SignerPk, LiquidateeAddress,
                      find_bank_vault_authority_pda(liab_bank, MarginfiProgram),
                      LiquidityVault(liab_bank), InsuranceVault(liab_bank),
                      TokenProgram, liquidator_obs, liquidatee_obs, asset_amount)

\* the tail of a call: get_latest_blockhash()? , sign, aggressive_send_tx, info!, Ok(())
Finish(c, blockhash_ok, outcome, message) ==
    IF blockhash_ok
    THEN [c EXCEPT !.sent = TRUE, !.sender = "aggressive_send_tx",
                   !.send_outcome = outcome, !.info = message, !.ret = "Ok"]
    ELSE [c EXCEPT !.ret = "Err"]

liquidate(liquidatee_balances, asset_bank, liab_bank, asset_amount, send_cfg, blockhash_ok, outcome) ==
    LET liquidator_obs == LiquidatorObservationAccounts(liab_bank, asset_bank)
        liquidatee_obs == get_observation_accounts(liquidatee_balances, << >>, << >>)
        liquidate_ix == LiquidateIx(asset_bank, liab_bank, liquidator_obs,
                                    liquidatee_obs, asset_amount)
    IN  /\ call' = Finish([NoCall EXCEPT !.op = "liquidate", !.bank = asset_bank,
                                         !.liab_bank = liab_bank,
                                         !.liquidator_observation_accounts = liquidator_obs,
                                         !.liquidatee_observation_accounts = liquidatee_obs,
                                         !.protocol_ix = liquidate_ix,
                                         !.ixs = LiquidateIxs(liquidate_ix, send_cfg)],
                          blockhash_ok, outcome, "Liquidation successful")
        /\ UNCHANGED balances

withdraw(bank, token_account, amount, withdraw_all, send_cfg, blockhash_ok, outcome) ==
    LET observation_accounts ==
            get_observation_accounts(balances, << >>, BanksToExclude(bank, withdraw_all))
        withdraw_ix ==
            make_withdraw_ix(MarginfiProgram, Group, LiquidatorAddress, SignerPk, bank,
                             token_account,
                             find_bank_vault_authority_pda(bank, MarginfiProgram),
                             LiquidityVault(bank), TokenProgram, observation_accounts,
                             amount, withdraw_all)
    IN  /\ call' = Finish([NoCall EXCEPT !.op = "withdraw", !.bank = bank,
                                         !.token_account = token_account,
                                         !.all = withdraw_all,
                                         !.observation_accounts = observation_accounts,
                                         !.protocol_ix = withdraw_ix,
                                         !.ixs = PlainIxs(withdraw_ix, send_cfg)],
                          blockhash_ok, outcome, "Withdraw successful")
        /\ UNCHANGED balances

\* repay passes self.token_program as make_repay_ix's first argument; the
\* blockhash is fetched before the instruction list is made
repay(bank, token_account, amount, repay_all, sender_cfg, blockhash_ok, outcome) ==
    LET repay_ix == make_repay_ix(TokenProgram, Group, LiquidatorAddress, SignerPk, bank,
                                  token_account, LiquidityVault(bank), TokenProgram,
                                  amount, repay_all)
    IN  /\ call' = Finish([NoCall EXCEPT !.op = "repay", !.bank = bank,
                                         !.token_account = token_account,
                                         !.all = repay_all,
                                         !.protocol_ix = repay_ix,
                                         !.ixs = IF blockhash_ok
                                                 THEN PlainIxs(repay_ix, sender_cfg)
                                                 ELSE << >>],
                          blockhash_ok, outcome, "Withdraw successful")
        /\ UNCHANGED balances

\* the blockhash is fetched before the instruction list is made
deposit(bank, token_account, amount, send_cfg, blockhash_ok, outcome) ==
    LET deposit_ix == make_deposit_ix(MarginfiProgram, Group, LiquidatorAddress,
                                      SignerPk, bank, token_account,
                                      LiquidityVault(bank), TokenProgram, amount)
    IN  /\ call' = Finish([NoCall EXCEPT !.op = "deposit", !.bank = bank,
                                         !.token_account = token_account,
                                         !.protocol_ix = deposit_ix,
                                         !.ixs = IF blockhash_ok
                                                 THEN PlainIxs(deposit_ix, send_cfg)
                                                 ELSE << >>],
                          blockhash_ok, outcome, "Deposit successful")
        /\ UNCHANGED balances

Liquidate ==
    /\ call = NoCall
    /\ \E lb \in Exposures, a \in Banks, l \in Banks, amt \in Amounts,
          cfg \in ComputeUnitPrices, ok \in BOOLEAN, o \in SendOutcomes :
           liquidate(lb, a, l, amt, cfg, ok, o)

Withdraw ==
    /\ call = NoCall
    /\ \E b \in Banks, ta \in TokenAccounts, amt \in Amounts, all \in OptionBool,
          cfg \in ComputeUnitPrices, ok \in BOOLEAN, o \in SendOutcomes :
           withdraw(b, ta, amt, all, cfg, ok, o)

Repay ==
    /\ call = NoCall
    /\ \E b \in Banks, ta \in TokenAccounts, amt \in Amounts, all \in OptionBool,
          cfg \in ComputeUnitPrices, ok \in BOOLEAN, o \in SendOutcomes :
           repay(b, ta, amt, all, cfg, ok, o)

Deposit ==
    /\ call = NoCall
    /\ \E b \in Banks, ta \in TokenAccounts, amt \in Amounts,
          cfg \in ComputeUnitPrices, ok \in BOOLEAN, o \in SendOutcomes :
           deposit(b, ta, amt, cfg, ok, o)

\* the call has returned and its caller goes on
Return ==
    /\ call # NoCall
    /\ call' = NoCall
    /\ UNCHANGED balances

AcctInit ==
    /\ balances \in Exposures
    /\ call = NoCall

AcctNext ==
    \/ Liquidate /\ UNCHANGED << jitoVars, chanVars, retryVars >>
    \/ Withdraw /\ UNCHANGED << jitoVars, chanVars, retryVars >>
    \/ Repay /\ UNCHANGED << jitoVars, chanVars, retryVars >>
    \/ Deposit /\ UNCHANGED << jitoVars, chanVars, retryVars >>
    \/ Return /\ UNCHANGED << jitoVars, chanVars, retryVars >>

(***************************************************************************)
(* JitoClient (jito/mod.rs)                                                *)
(***************************************************************************)
\* the strings the relay may give as tip accounts; the last is no base58 address
TipStrings == {"tip_account_1", "not-a-pubkey"}
TipLists == UNION {[1 .. n -> TipStrings] : n \in 0 .. MaxTips}

\* Pubkey::from_str
PubkeyFromStr(str) == IF str = "not-a-pubkey" THEN "Err" ELSE str

Lamports == 1 .. MaxLamports

\* the instruction lists handed to send_transaction: none, a deposit, an assembled
\* liquidation, and a transfer of the signer's that is no tip
InputIxs ==
    { << >>,
      << Transfer(SignerPk, "recipient", 1) >>,
      << make_deposit_ix(MarginfiProgram, Group, LiquidatorAddress, SignerPk, "bank1",
                         TokenAccount, LiquidityVault("bank1"), TokenProgram, 1) >>,
      LiquidateIxs(LiquidateIx("bank1", "bank2", << "bank2", "bank1" >>, << "bank1" >>, 1),
                   [some |-> FALSE, value |-> 0]) }

\* the log keeps the first MaxLog entries of a dispatch
Record(entry) == IF Len(log) < MaxLog THEN Append(log, entry) ELSE log

Count(n) == Min(n + 1, MaxPolls)

\* the blockhash fetched before the subscription is opened
StepAfterBlockhashFirst(at) ==
    CASE at = "start" -> "get_blockhash"
      [] at = "get_blockhash" -> "subscribe"
      [] at = "subscribe" -> "poll"

\* the order of send_transaction's steps up to the leader loop
StepAfter(at) ==
    CASE at = "start" -> "subscribe"
      [] at = "subscribe" -> "get_blockhash"
      [] at = "get_blockhash" -> "poll"

\* next_leader.next_leader_slot - next_leader.current_slot on unsigned slots,
\* in a build that does not check overflow
WrappingSub(a, b) == (a - b + SlotModulus) % SlotModulus

\* the comparison turned around
IsJitoLeaderTurned(n) == n >= LeaderSlotThreshold

\* is_jito_leader = (num_slots <= 2).into()
IsJitoLeader(n) == n <= LeaderSlotThreshold

\* while !is_jito_leader { .. }
LoopExit(leader) == IF leader THEN "submit" ELSE "poll"

\* the tip put in front of the instructions
PushTipFront(in_ixs, tip_account, amt) ==
    << Transfer(SignerPk, tip_account, amt) >> \o in_ixs

\* ixs.push(transfer(&self.keypair.pubkey(), &tip_account, lamports))
PushTip(in_ixs, tip_account, amt) == Append(in_ixs, Transfer(SignerPk, tip_account, amt))

\* vec![VersionedTransaction::from(Transaction::new_signed_with_payer(&ixs, ..))]
SignedTxs(tx_ixs) == << [instructions |-> tx_ixs, payer |-> SignerPk] >>

\* what the function returns after send_bundle_with_confirmation: Ok(()) in both arms
SendReturn(result) == "Ok"

\* a rejected bundle sent again
AfterResultResend(result) == IF result = "Rejected" THEN "submit" ELSE "idle"

\* where send_transaction goes once send_bundle_with_confirmation is back: the
\* function ends in both arms, there is no loop around the send
AfterResult(result) == "idle"

JitoInit ==
    /\ tip_accounts = << >>
    /\ overflow_checks \in BOOLEAN
    /\ pc = "idle"
    /\ ixs = << >>
    /\ lamports = 0
    /\ slot_distance = 0
    /\ num_slots = 0
    /\ is_jito_leader = FALSE
    /\ polls = 0
    /\ sleeps = 0
    /\ log = << >>
    /\ bundle = << >>
    /\ bundle_result = "none"
    /\ error_logged = FALSE
    /\ ret = "none"

\* get_tip_accounts: .expect on the relay's answer, then the field is replaced
GetTipAccounts ==
    /\ pc = "idle"
    /\ \E ok \in BOOLEAN, accounts \in TipLists :
          IF ok
          THEN /\ tip_accounts' = accounts
               /\ UNCHANGED pc
          ELSE /\ pc' = "panicked"
               /\ UNCHANGED tip_accounts
    /\ UNCHANGED << overflow_checks, ixs, lamports, slot_distance, num_slots,
                    is_jito_leader, polls, sleeps, log, bundle, bundle_result,
                    error_logged, ret >>

\* a call of send_transaction(ixs, lamports)
SendTransaction ==
    /\ pc = "idle"
    /\ \E in_ixs \in InputIxs, amt \in Lamports :
          /\ ixs' = in_ixs
          /\ lamports' = amt
    /\ pc' = StepAfter("start")
    /\ slot_distance' = 0
    /\ num_slots' = 0
    /\ is_jito_leader' = FALSE
    /\ polls' = 0
    /\ sleeps' = 0
    /\ log' = << >>
    /\ bundle' = << >>
    /\ bundle_result' = "none"
    /\ error_logged' = FALSE
    /\ ret' = "none"
    /\ UNCHANGED << tip_accounts, overflow_checks >>

\* subscribe_bundle_results(..).await.expect("subscribe to bundle results")
Subscribe ==
    /\ pc = "subscribe"
    /\ log' = Record("subscribe_bundle_results")
    /\ \E ok \in BOOLEAN : pc' = IF ok THEN StepAfter("subscribe") ELSE "panicked"
    /\ UNCHANGED << tip_accounts, overflow_checks, ixs, lamports, slot_distance,
                    num_slots, is_jito_leader, polls, sleeps, bundle, bundle_result,
                    error_logged, ret >>

\* self.rpc.get_latest_blockhash().await?
GetLatestBlockhash ==
    /\ pc = "get_blockhash"
    /\ log' = Record("get_latest_blockhash")
    /\ \E ok \in BOOLEAN :
          IF ok
          THEN /\ pc' = StepAfter("get_blockhash")
               /\ UNCHANGED ret
          ELSE /\ pc' = "idle"
               /\ ret' = "Err"
    /\ UNCHANGED << tip_accounts, overflow_checks, ixs, lamports, slot_distance,
                    num_slots, is_jito_leader, polls, sleeps, bundle, bundle_result,
                    error_logged >>

\* one get_next_scheduled_leader of the loop, with the subtraction and the test
PollLeader ==
    /\ pc = "poll"
    /\ log' = Record("get_next_scheduled_leader")
    /\ polls' = Count(polls)
    /\ \E ok \in BOOLEAN, next \in Slots, cur \in Slots :
          IF ~ok
          THEN /\ pc' = "panicked"
               /\ UNCHANGED << slot_distance, num_slots, is_jito_leader >>
          ELSE /\ slot_distance' = next - cur
               /\ IF next < cur /\ overflow_checks
                  THEN /\ pc' = "panicked"
                       /\ UNCHANGED << num_slots, is_jito_leader >>
                  ELSE /\ num_slots' = WrappingSub(next, cur)
                       /\ is_jito_leader' = IsJitoLeader(num_slots')
                       /\ pc' = "sleep"
    /\ UNCHANGED << tip_accounts, overflow_checks, ixs, lamports, sleeps, bundle,
                    bundle_result, error_logged, ret >>

\* sleep(500 ms), then the loop test
Sleep ==
    /\ pc = "sleep"
    /\ log' = Record("sleep")
    /\ sleeps' = Count(sleeps)
    /\ pc' = LoopExit(is_jito_leader)
    /\ UNCHANGED << tip_accounts, overflow_checks, ixs, lamports, slot_distance,
                    num_slots, is_jito_leader, polls, bundle, bundle_result,
                    error_logged, ret >>

\* the tip is pushed (tip_accounts[0], from_str(..).unwrap()), the transaction is
\* signed, and send_bundle_with_confirmation submits the bundle
SubmitBundle ==
    /\ pc = "submit"
    /\ IF tip_accounts = << >> \/ PubkeyFromStr(Head(tip_accounts)) = "Err"
       THEN /\ pc' = "panicked"
            /\ UNCHANGED << ixs, bundle, log >>
       ELSE /\ ixs' = PushTip(ixs, PubkeyFromStr(Head(tip_accounts)), lamports)
            /\ bundle' = SignedTxs(ixs')
            /\ log' = Record("send_bundle")
            /\ pc' = "await_result"
    /\ UNCHANGED << tip_accounts, overflow_checks, lamports, slot_distance, num_slots,
                    is_jito_leader, polls, sleeps, bundle_result, error_logged, ret >>

\* send_bundle_with_confirmation comes back; an Err is logged; Ok(()) is returned
BundleResult ==
    /\ pc = "await_result"
    /\ \E result \in {"Landed", "Rejected", "TimedOut"} :
          /\ bundle_result' = result
          /\ error_logged' = (result # "Landed")
          /\ ret' = SendReturn(result)
          /\ pc' = AfterResult(result)
    /\ UNCHANGED << tip_accounts, overflow_checks, ixs, lamports, slot_distance,
                    num_slots, is_jito_leader, polls, sleeps, log, bundle >>

JitoNext ==
    \/ GetTipAccounts /\ UNCHANGED << acctVars, chanVars, retryVars >>
    \/ SendTransaction /\ UNCHANGED << acctVars, chanVars, retryVars >>
    \/ Subscribe /\ UNCHANGED << acctVars, chanVars, retryVars >>
    \/ GetLatestBlockhash /\ UNCHANGED << acctVars, chanVars, retryVars >>
    \/ PollLeader /\ UNCHANGED << acctVars, chanVars, retryVars >>
    \/ Sleep /\ UNCHANGED << acctVars, chanVars, retryVars >>
    \/ SubmitBundle /\ UNCHANGED << acctVars, chanVars, retryVars >>
    \/ BundleResult /\ UNCHANGED << acctVars, chanVars, retryVars >>

(***************************************************************************)
(* run_liquidator (cli/entrypoints.rs): the transaction channel            *)
(***************************************************************************)
\* the two producers that get a clone of transaction_tx
Producers == {"liquidator", "rebalancer"}

\* the i-th BatchTransactions a producer sends
Item(producer, i) == [from |-> producer, seq |-> i]

\* a channel that hands out the newest item first
ChanSendFront(queue, item) == << item >> \o queue

\* crossbeam::channel::unbounded: send never blocks and queues behind what is there
ChanSend(queue, item) == Append(queue, item)

\* a channel is closed to its receiver once it is empty and no Sender is left
Disconnected == transaction_channel = << >> /\ senders = {}

\* a producer's loop sends its next item through its clone of transaction_tx
Send(producer) ==
    /\ producer \in senders
    /\ sent[producer] < MaxSend
    /\ sent' = [sent EXCEPT ![producer] = @ + 1]
    /\ transaction_channel' =
           ChanSend(transaction_channel, Item(producer, sent[producer] + 1))
    /\ UNCHANGED << senders, received, run_liquidator, transaction_manager >>

\* liquidator.start() is polled by run_liquidator itself
LiquidatorSend ==
    /\ run_liquidator = "running"
    /\ Send("liquidator")

\* rebalancer.start() runs in a spawned task
RebalancerSend == Send("rebalancer")

\* liquidator.start() comes back (Ok or Err): run_liquidator returns at once and
\* drops the liquidator and its own transaction_tx; no spawned task is awaited
LiquidatorReturn ==
    /\ run_liquidator = "running"
    /\ run_liquidator' = "returned"
    /\ senders' = senders \ {"run_liquidator", "liquidator"}
    /\ UNCHANGED << transaction_channel, sent, received, transaction_manager >>

\* rebalancer.start() comes back: its task ends and drops the rebalancer
RebalancerReturn ==
    /\ "rebalancer" \in senders
    /\ senders' = senders \ {"rebalancer"}
    /\ UNCHANGED << transaction_channel, sent, received, run_liquidator,
                    transaction_manager >>

\* transaction_manager.start() takes the oldest item off transaction_rx
ManagerRecv ==
    /\ transaction_manager = "running"
    /\ transaction_channel # << >>
    /\ received' = Append(received, Head(transaction_channel))
    /\ transaction_channel' = Tail(transaction_channel)
    /\ UNCHANGED << senders, sent, run_liquidator, transaction_manager >>

\* transaction_manager.start() ends when the channel is empty and disconnected
ManagerExit ==
    /\ transaction_manager = "running"
    /\ Disconnected
    /\ transaction_manager' = "stopped"
    /\ UNCHANGED << transaction_channel, senders, sent, received, run_liquidator >>

ChanInit ==
    /\ transaction_channel = << >>
    /\ senders = {"run_liquidator"} \cup Producers
    /\ sent = [p \in Producers |-> 0]
    /\ received = << >>
    /\ run_liquidator = "running"
    /\ transaction_manager = "running"

ChanNext ==
    \/ LiquidatorSend /\ UNCHANGED << acctVars, jitoVars, retryVars >>
    \/ RebalancerSend /\ UNCHANGED << acctVars, jitoVars, retryVars >>
    \/ LiquidatorReturn /\ UNCHANGED << acctVars, jitoVars, retryVars >>
    \/ RebalancerReturn /\ UNCHANGED << acctVars, jitoVars, retryVars >>
    \/ ManagerRecv /\ UNCHANGED << acctVars, jitoVars, retryVars >>
    \/ ManagerExit /\ UNCHANGED << acctVars, jitoVars, retryVars >>

(***************************************************************************)
(* The direct retry sender (sender.rs, aggressive_send_tx)                 *)
(***************************************************************************)
\* what the ledger or the RPC node answers to an attempt
Responses == {"not_found", "landed", "blockhash_expired", "submission_error"}

Ceilings == 1 .. MaxCeiling

\* a sender that allows itself one attempt more
OutOfAttemptsLate(made, ceiling) == made > ceiling

\* the attempt ceiling is reached
OutOfAttempts(made, ceiling) == made >= ceiling

\* the send after an attempt that got this answer
OutcomeAfter(response, made, ceiling) ==
    CASE response = "landed" -> "Landed"
      [] response = "blockhash_expired" -> "Expired"
      [] OTHER -> IF OutOfAttempts(made, ceiling) THEN "Expired" ELSE "pending"

\* send(transaction, policy): sign once, then attempt
RetrySend ==
    /\ submission_outcome # "pending"
    /\ \E ceiling \in Ceilings : attempt_ceiling' = ceiling
    /\ attempts' = 0
    /\ responses' = << >>
    /\ submission_outcome' = "pending"

\* one attempt: submit the same signed bytes, sleep the poll interval, poll
RetryAttempt ==
    /\ submission_outcome = "pending"
    /\ \E response \in Responses :
          /\ attempts' = attempts + 1
          /\ responses' = Append(responses, response)
          /\ submission_outcome' = OutcomeAfter(response, attempts + 1, attempt_ceiling)
    /\ UNCHANGED attempt_ceiling

RetryInit ==
    /\ attempt_ceiling = 1
    /\ attempts = 0
    /\ responses = << >>
    /\ submission_outcome = "idle"

RetryNext ==
    \/ RetrySend /\ UNCHANGED << acctVars, jitoVars, chanVars >>
    \/ RetryAttempt /\ UNCHANGED << acctVars, jitoVars, chanVars >>

(***************************************************************************)
(* Specifications                                                          *)
(***************************************************************************)
\* the bundle sender alone
Init ==
    /\ JitoInit
    /\ balances = << >>
    /\ call = NoCall
    /\ ChanInit
    /\ RetryInit

Next == JitoNext

Spec == Init /\ [][Next]_vars

\* the sender's task is scheduled and the relay and the RPC node answer: every
\* step of a dispatch that has started is eventually taken
FairSpec ==
    /\ Spec
    /\ WF_vars(Subscribe /\ UNCHANGED << acctVars, chanVars, retryVars >>)
    /\ WF_vars(GetLatestBlockhash /\ UNCHANGED << acctVars, chanVars, retryVars >>)
    /\ WF_vars(PollLeader /\ UNCHANGED << acctVars, chanVars, retryVars >>)
    /\ WF_vars(Sleep /\ UNCHANGED << acctVars, chanVars, retryVars >>)
    /\ WF_vars(SubmitBundle /\ UNCHANGED << acctVars, chanVars, retryVars >>)
    /\ WF_vars(BundleResult /\ UNCHANGED << acctVars, chanVars, retryVars >>)

\* the liquidator account's operations alone
InitAcct ==
    /\ AcctInit
    /\ JitoInit
    /\ ChanInit
    /\ RetryInit

SpecAcct == InitAcct /\ [][AcctNext]_vars

\* the transaction channel of run_liquidator alone
SpecChan == Init /\ [][ChanNext]_vars

\* the direct retry sender alone
SpecRetry == Init /\ [][RetryNext]_vars

(***************************************************************************)
(* Properties of the bundle sender                                         *)
(***************************************************************************)
Submitted == bundle # << >>

\* the places of an entry in the log
Places(entry) == {i \in 1 .. Len(log) : log[i] = entry}

\* C1: a bundle is submitted only after a leader poll, and the distance
\* next_leader_slot - current_slot of the last poll before the submit is at most
\* the threshold 2; nothing is submitted while the last distance exceeds 2.
C1_SubmitOnlyNearLeader ==
    Submitted => (polls >= 1 /\ is_jito_leader /\ slot_distance <= LeaderSlotThreshold)

\* two polls, the first too far (the loop went on), the second at distance 1
C1_Witness ==
    /\ pc = "await_result"
    /\ Submitted
    /\ polls = 2
    /\ slot_distance = 1

C6_SubscribeFirst ==
    /\ log # << >> => log[1] = "subscribe_bundle_results"
    /\ pc \in {"get_blockhash", "poll", "sleep", "submit", "await_result"}
          => Places("subscribe_bundle_results") # {}
    /\ Submitted => Places("subscribe_bundle_results") # {}

\* a submit with the subscription opened before it
C6_Witness ==
    /\ Submitted
    /\ \E i \in Places("subscribe_bundle_results"), j \in Places("send_bundle") : i < j

\* C7: the blockhash the bundle is signed against is fetched after the last
\* leader poll and before the submit.
C7_BlockhashAfterLeaderWait ==
    Places("send_bundle") # {} =>
        \E i \in Places("get_latest_blockhash") :
            /\ \A j \in Places("get_next_scheduled_leader") : j < i
            /\ \A j \in Places("send_bundle") : i < j

\* the positions inside send_transaction
InDispatch == {"subscribe", "get_blockhash", "poll", "sleep", "submit", "await_result"}

\* C8: no failure during a dispatch panics the task: no step of send_transaction
\* ends in a panic.
C8_DispatchNeverPanics == [][(pc \in InDispatch) => ~(pc' = "panicked")]_vars

\* C9: the leader wait ends: a dispatch that polls for the leader leaves the
\* loop, by submitting or by giving up.
C9_LeaderWaitEnds == (pc = "poll") ~> (pc \notin {"poll", "sleep"})

\* C10: a bundle that was rejected or timed out is not reported to the caller
\* as a success.
C10_FailureIsReported ==
    (pc = "idle" /\ bundle_result \in {"Rejected", "TimedOut"}) => ret # "Ok"

\* C11: a dispatch submits its bundle at most once: a bundle is submitted only
\* by a dispatch that has submitted none yet, and after a rejection or a timeout
\* nothing is submitted until the caller starts a new dispatch.
C11_SubmitAtMostOnce ==
    [][(bundle' # bundle) => (bundle = << >> \/ (pc = "idle" /\ bundle' = << >>))]_vars

\* a dispatch whose bundle was rejected has ended
C11_Witness ==
    /\ pc = "idle"
    /\ Submitted
    /\ bundle_result = "Rejected"
    /\ Cardinality(Places("send_bundle")) = 1

\* C19: the subtraction next_leader_slot - current_slot never underflows: no
\* answer of the relay makes the sender panic, and the distance the sender goes
\* on with (and may submit on) is the distance of the answer, never a wrapped one.
C19_NoUnderflow ==
    [][(pc = "poll") =>
          /\ (slot_distance' # slot_distance) => ~(pc' = "panicked")
          /\ (pc' = "sleep") => (num_slots' = slot_distance')]_vars

\* C20: the sender sleeps only between leader polls: when the bundle is
\* submitted, the dispatch has slept once less than it has polled.
C20_SleepsBetweenPolls ==
    (Submitted /\ polls < MaxPolls) => sleeps = polls - 1

(***************************************************************************)
(* Properties of the liquidator account's transactions                     *)
(***************************************************************************)
\* the fixed accounts of the liquidation of the last call
CallLiquidateMetas ==
    LiquidateMetas(Group, LiquidatorAddress, call.bank, call.liab_bank, SignerPk,
                   LiquidateeAddress,
                   find_bank_vault_authority_pda(call.liab_bank, MarginfiProgram),
                   LiquidityVault(call.liab_bank), InsuranceVault(call.liab_bank),
                   TokenProgram)

\* the accounts of the protocol instruction after its first n
AccountsAfter(n) ==
    SubSeq(call.protocol_ix.accounts, n + 1, Len(call.protocol_ix.accounts))

C4_WithdrawAllExcludesBank ==
    (call.op = "withdraw" /\ call.all = "SomeTrue") =>
        /\ call.bank \notin Range(call.observation_accounts)
        /\ call.bank \notin Range(Pubkeys(AccountsAfter(
               Len(WithdrawMetas(Group, LiquidatorAddress, SignerPk, call.bank,
                                 TokenAccount,
                                 find_bank_vault_authority_pda(call.bank, MarginfiProgram),
                                 LiquidityVault(call.bank), TokenProgram)))))

\* a full withdrawal, sent, from a bank the account is exposed to, with another
\* exposure left to observe
C4_Witness ==
    /\ call.op = "withdraw"
    /\ call.all = "SomeTrue"
    /\ call.sent
    /\ call.bank \in Range(balances)
    /\ call.observation_accounts # << >>

\* C15: no transaction that is signed and sent carries the default address among
\* the accounts of its protocol instruction (building would have failed with
\* MissingAccount before submission).
C15_DefaultAddressNeverSent ==
    call.sent => DefaultPubkey \notin Range(Pubkeys(call.protocol_ix.accounts))

\* C16: a liquidation that is sent is handed to the leader-aware bundle sender
\* (JitoClient::send_transaction), never to the direct sender.
C16_LiquidationThroughBundleSender ==
    (call.op = "liquidate" /\ call.sent) => call.sender = "JitoClient::send_transaction"

\* C17: the withdraw instruction's account list is the fixed withdraw accounts
\* followed by every observation account, read-only and no signer, in order.
C17_WithdrawCarriesObservationAccounts ==
    (call.op = "withdraw") =>
        call.protocol_ix.accounts =
            WithdrawMetas(Group, LiquidatorAddress, SignerPk, call.bank,
                          call.token_account,
                          find_bank_vault_authority_pda(call.bank, MarginfiProgram),
                          LiquidityVault(call.bank), TokenProgram)
            \o ReadonlyMetas(call.observation_accounts)

\* C18: the protocol instruction of each of the four operations has the lending
\* protocol's program id.
C18_ProtocolProgramId ==
    (call.op # "none") => call.protocol_ix.program_id = MarginfiProgram

\* the items of a sequence that one producer sent
FromProducer(items, producer) == SelectSeq(items, LAMBDA item : item.from = producer)

\* C12: for every interleaving, what the transaction manager has received from
\* one producer, followed by what is still queued from it, is exactly that
\* producer's items in the order it sent them, each once.
C12_PerProducerFifo ==
    \A p \in Producers :
        FromProducer(received \o transaction_channel, p)
            = [i \in 1 .. sent[p] |-> Item(p, i)]

\* the two producers' items received interleaved
C12_Witness ==
    /\ Len(received) >= 4
    /\ received[1].from = "rebalancer"
    /\ received[2].from = "liquidator"
    /\ received[3].from = "rebalancer"

\* C13: run_liquidator has not returned while items sent on the transaction
\* channel are still waiting for the transaction manager.
C13_DrainedBeforeReturn ==
    (run_liquidator = "returned") => (transaction_channel = << >>)

AllNotFound(answers) == \A i \in 1 .. Len(answers) : answers[i] = "not_found"

\* C14: never more attempts than the ceiling; not-found on the first N-1 polls
\* and landed on the N-th, N below the ceiling, ends in Landed; not-found on every
\* poll up to the ceiling ends in Expired.
C14_RetryOutcome ==
    /\ attempts <= attempt_ceiling
    /\ (/\ attempts >= 1
        /\ attempts < attempt_ceiling
        /\ responses[attempts] = "landed"
        /\ AllNotFound(SubSeq(responses, 1, attempts - 1))) => submission_outcome = "Landed"
    /\ (/\ submission_outcome # "idle"
        /\ attempts = attempt_ceiling
        /\ AllNotFound(responses)) => submission_outcome = "Expired"

\* landed on the second poll of three allowed
C14_Witness ==
    /\ attempt_ceiling = 3
    /\ responses = << "not_found", "landed" >>
    /\ submission_outcome = "Landed"

====
